---- MODULE Spec2Model ----
(***************************************************************************)
(* Model of the chart pipeline of the AI-Powered CSV/XLS App               *)
(* (src/utils.py, src/app.py).                                             *)
(*                                                                         *)
(* Text is a sequence of one-character strings, so that Python's           *)
(* str.split, str.replace, str.strip, str.startswith and in are            *)
(* computed on characters, as the interpreter computes them.               *)
(***************************************************************************)
EXTENDS Naturals, Sequences, FiniteSets

VARIABLES
    \* a text function called on its own
    text,       \* the argument handed to a text function
    stage,      \* which applications of the text function have been made
    out1,       \* result of the first application
    out2,       \* result of applying clean_generated_code to out1
    \* st.session_state
    chart,              \* st.session_state.chart
    qa_feedback,        \* st.session_state.qa_feedback
    chart_feedback,     \* st.session_state.chart_feedback
    feedback_history,   \* st.session_state.feedback_history
    prompt_history,     \* st.session_state.prompt_history
    \* the chart request being served
    pc,         \* the step the request is at
    caller,     \* who called: the chart form of main, or a direct caller
    query,      \* chart_query / the query argument
    prompt,     \* the prompt handed to the service
    response,   \* response.content
    code,       \* the fragment: extracted, then sanitized
    calls,      \* llm.invoke calls made for the request
    trace,      \* the steps run for the request, in order
    ran,        \* what exec did and what execute_generated_code gave back
    raised,     \* the exception that left the pipeline
    errors,     \* the st.error messages of the run
    shown,      \* the chart st.plotly_chart rendered in the run
    chartAtSubmit,  \* st.session_state.chart when the request was submitted
    fbCall      \* the arguments of the latest handle_feedback call

textVars == <<text, stage, out1, out2>>
sessionVars == <<chart, qa_feedback, chart_feedback, feedback_history,
                 prompt_history>>
requestVars == <<pc, caller, query, prompt, response, code, calls, trace, ran,
                 raised, errors, shown, chartAtSubmit>>
appVars == <<sessionVars, requestVars, fbCall>>
vars == <<textVars, appVars>>

----------------------------------------------------------------------------
(* Bounds of the enumerated inputs *)

\* number of pieces concatenated into a fragment handed to the sanitizer
MaxCleanPieces == 4
\* number of pieces concatenated into a response handed to the extractor
MaxExtractPieces == 5

----------------------------------------------------------------------------
(* Python string primitives on character sequences *)

NL == "\n"

\* str.strip() with no argument removes whitespace
Whitespace == {" ", "\n", "\t"}

\* s[i-1:] in Python terms: the suffix starting at 1-based position i
Tail_(s, i) == SubSeq(s, i, Len(s))

\* s.startswith(p)
StartsWith(s, p) == Len(p) <= Len(s) /\ SubSeq(s, 1, Len(p)) = p

\* s.find(sub, from-1) + 1: the least 1-based position >= from where sub
\* occurs in s, 0 when there is none
Find(s, sub, from) ==
    LET hits == {i \in from..(Len(s) - Len(sub) + 1) :
                    SubSeq(s, i, i + Len(sub) - 1) = sub}
    IN IF hits = {} THEN 0 ELSE CHOOSE i \in hits : \A j \in hits : i <= j

\* sub in s
Contains(s, sub) == Find(s, sub, 1) # 0

\* s.split(sep): cut at the leftmost occurrence, then split what follows it
RECURSIVE Split(_, _)
Split(s, sep) ==
    LET i == Find(s, sep, 1)
    IN IF i = 0 THEN <<s>>
       ELSE <<SubSeq(s, 1, i - 1)>> \o Split(Tail_(s, i + Len(sep)), sep)

\* s.replace(old, new): every leftmost non-overlapping occurrence, one pass
RECURSIVE Replace(_, _, _)
Replace(s, old, new) ==
    LET i == Find(s, old, 1)
    IN IF i = 0 THEN s
       ELSE SubSeq(s, 1, i - 1) \o new \o Replace(Tail_(s, i + Len(old)), old, new)

\* s.lstrip()
RECURSIVE LStrip(_)
LStrip(s) ==
    IF s # <<>> /\ Head(s) \in Whitespace THEN LStrip(Tail(s)) ELSE s

\* s.rstrip()
RECURSIVE RStrip(_)
RStrip(s) ==
    IF s # <<>> /\ s[Len(s)] \in Whitespace
    THEN RStrip(SubSeq(s, 1, Len(s) - 1)) ELSE s

\* s.strip()
Strip(s) == RStrip(LStrip(s))

\* sep.join(parts)
RECURSIVE Join(_, _)
Join(parts, sep) ==
    IF parts = <<>> THEN <<>>
    ELSE IF Len(parts) = 1 THEN parts[1]
    ELSE parts[1] \o sep \o Join(Tail(parts), sep)

----------------------------------------------------------------------------
(* Literals of src/utils.py *)

\* the backquote character (the lexer of the tools cannot read it inside a
\* string literal, so the character is written by name)
BQ == "<backquote>"

\* the fence marker: three backquotes
Fence == <<BQ, BQ, BQ>>
\* the tagged fence marker: three backquotes followed by python
TaggedFence == Fence \o <<"p", "y", "t", "h", "o", "n">>
\* 'fig.show()'
ShowCall == <<"f", "i", "g", ".", "s", "h", "o", "w", "(", ")">>
\* 'import'
ImportKw == <<"i", "m", "p", "o", "r", "t">>
\* 'from'
FromKw == <<"f", "r", "o", "m">>

----------------------------------------------------------------------------
(* The text functions of src/utils.py *)

\* the condition of the list comprehension: the line is kept
KeepLine(line) ==
    /\ ~StartsWith(Strip(line), ImportKw)
    /\ ~StartsWith(Strip(line), FromKw)

\* mutant: a dropped line leaves an empty line behind
clean_blanking_lines(c) ==
    LET replaced == Replace(c, ShowCall, <<>>)
        lines == Split(replaced, <<NL>>)
        cleaned_lines == [k \in 1..Len(lines) |->
                            IF KeepLine(lines[k]) THEN lines[k] ELSE <<>>]
    IN Join(cleaned_lines, <<NL>>)

clean_generated_code(c) ==
    LET replaced == Replace(c, ShowCall, <<>>)
        lines == Split(replaced, <<NL>>)
        cleaned_lines == SelectSeq(lines, KeepLine)
    IN Join(cleaned_lines, <<NL>>)

\* mutant: the first fence of the text is taken, tagged or not
extract_first_fence(r) ==
    IF Contains(r, Fence)
    THEN Strip(Split(r, Fence)[2])
    ELSE Strip(r)

extract_code_from_response(r) ==
    IF Contains(r, TaggedFence)
    THEN Strip(Split(Split(r, TaggedFence)[2], Fence)[1])
    ELSE IF Contains(r, Fence)
         THEN Strip(Split(r, Fence)[2])
         ELSE Strip(r)

----------------------------------------------------------------------------
(* Enumerated inputs: every concatenation of at most n pieces *)

RECURSIVE Concats(_, _)
Concats(pieces, n) ==
    IF n = 0 THEN {<<>>}
    ELSE LET shorter == Concats(pieces, n - 1)
         IN shorter \cup {p \o s : p \in pieces, s \in shorter}

\* 'import pandas as pd\nfig = px.bar(df)\nfig.show()'
ImportLine == ImportKw \o <<" ", "p", "a", "n", "d", "a", "s", " ", "a", "s", " ", "p", "d">>
FigLine == <<"f", "i", "g", " ", "=", " ", "p", "x", ".", "b", "a", "r", "(", "d", "f", ")">>
ScenarioFragment == ImportLine \o <<NL>> \o FigLine \o <<NL>> \o ShowCall

CleanPieces ==
    { ShowCall, <<"f", "i", "g", ".", "s">>, <<"h", "o", "w", "(", ")">>,
      ImportKw, <<"i", "m">>, <<"p", "o", "r", "t">>, FromKw,
      <<" ">>, <<NL>>, <<"x">> }

CleanInputs == Concats(CleanPieces, MaxCleanPieces) \cup {ScenarioFragment}

----------------------------------------------------------------------------
(* The application: values *)

\* the python value None
None == "None"

\* the empty string
Empty == <<>>

\* the texts typed into the chart form or passed as the query argument
Queries == { <<"t", "o", "p">>, <<"s", "u", "m">> }

\* str(list(df.columns)) of the uploaded table
Columns == "['product', 'revenue']"

\* response.content of the code-generation service
Responses ==
    { TaggedFence \o <<NL>> \o FigLine \o <<NL>> \o ShowCall \o <<NL>> \o Fence,
      ImportLine,
      <<"x">> }

\* what the fragment can bind fig to
FigValues == {"figA", "figB", None}

\* str(e) of a fault raised inside the fragment
FaultTexts == { <<"KeyError: revenue">> }

\* str(e) of a failed llm.invoke
ServiceFaultTexts == { <<"APIConnectionError">> }

NoException == [kind |-> "none", msg |-> Empty]

NotRun == [outcome |-> [kind |-> "none", fig |-> None, desc |-> Empty],
           returned |-> FALSE, value |-> None, exc |-> NoException]

\* the keys, texts and values handle_feedback is called with
FeedbackTypes == {"qa", "chart", "other"}
FeedbackKeys == {"k1", "k2"}
FeedbackTexts == {"q"}
FeedbackValues == {"helpful", "needs_improvement"}

NoCall == [ftype |-> "none", key |-> "none", text |-> "none", value |-> "none"]

\* s is a contiguous part of t
IsInfix(s, t) == Contains(t, s)

\* x in list
InSeq(x, list) == \E k \in 1..Len(list) : list[k] = x

----------------------------------------------------------------------------
(* The application: functions of src/utils.py *)

\* the prompt text of generate_chart_code
ChartPrompt(q, columns) ==
    <<"Generate only executable Python code for a plotly chart. ", "Task: ">>
    \o q \o
    << NL, "Available columns: ", columns, NL,
       "Requirements:", NL,
       "1. Only use plotly.express (px) or plotly.graph_objects (go)", NL,
       "2. Name the figure variable 'fig'", NL,
       "3. Don't include imports or fig.show()", NL,
       "4. Use 'df' as the DataFrame name", NL,
       "Example format:", NL,
       "filtered_df = df.sort_values('column', ascending=False).head(10)", NL,
       "fig = px.bar(filtered_df, x='column1', y='column2', title='Chart Title')" >>

\* what exec(code.strip(), namespace) can do: bind fig, finish without
\* binding it, raise an Exception, or raise a BaseException that is none
\* (SystemExit, KeyboardInterrupt); an empty program only finishes
ExecOutcomes(c) ==
    IF Strip(c) = Empty
    THEN {[kind |-> "unbound", fig |-> None, desc |-> Empty]}
    ELSE {[kind |-> "bound", fig |-> v, desc |-> Empty] : v \in FigValues}
         \cup {[kind |-> "unbound", fig |-> None, desc |-> Empty]}
         \cup {[kind |-> "fault", fig |-> None, desc |-> d] : d \in FaultTexts}
         \cup {[kind |-> "exit", fig |-> None, desc |-> <<"SystemExit">>]}

NoFigureText == <<"No figure was created (missing 'fig' variable)">>

\* the exception of the except clause of execute_generated_code
ExecutionFailure(desc, c) ==
    [kind |-> "Exception",
     msg |-> <<"Code execution failed:", NL>> \o desc
             \o <<NL, "Generated code:", NL>> \o c]

\* mutant: the message carries the stripped program that was run
execute_reporting_stripped(c, o) ==
    IF o.kind = "bound"
    THEN [outcome |-> o, returned |-> TRUE, value |-> o.fig, exc |-> NoException]
    ELSE IF o.kind = "unbound"
    THEN [outcome |-> o, returned |-> FALSE, value |-> None,
          exc |-> ExecutionFailure(NoFigureText, Strip(c))]
    ELSE IF o.kind = "fault"
    THEN [outcome |-> o, returned |-> FALSE, value |-> None,
          exc |-> ExecutionFailure(o.desc, Strip(c))]
    ELSE [outcome |-> o, returned |-> FALSE, value |-> None,
          exc |-> [kind |-> "BaseException", msg |-> o.desc]]

\* execute_generated_code(c, df), exec having done o
execute_generated_code(c, o) ==
    IF o.kind = "bound"
    THEN [outcome |-> o, returned |-> TRUE, value |-> o.fig, exc |-> NoException]
    ELSE IF o.kind = "unbound"
    THEN [outcome |-> o, returned |-> FALSE, value |-> None,
          exc |-> ExecutionFailure(NoFigureText, c)]
    ELSE IF o.kind = "fault"
    THEN [outcome |-> o, returned |-> FALSE, value |-> None,
          exc |-> ExecutionFailure(o.desc, c)]
    ELSE [outcome |-> o, returned |-> FALSE, value |-> None,
          exc |-> [kind |-> "BaseException", msg |-> o.desc]]

----------------------------------------------------------------------------
(* The application: state after main has initialised st.session_state *)

AppStart ==
    /\ chart = None
    /\ qa_feedback = << >>
    /\ chart_feedback = << >>
    /\ feedback_history = << >>
    /\ prompt_history = << >>
    /\ pc = "idle"
    /\ caller = "none"
    /\ query = Empty
    /\ prompt = Empty
    /\ response = Empty
    /\ code = Empty
    /\ calls = 0
    /\ trace = << >>
    /\ ran = NotRun
    /\ raised = NoException
    /\ errors = << >>
    /\ shown = None
    /\ chartAtSubmit = None
    /\ fbCall = NoCall

TextStart ==
    /\ text = Empty
    /\ stage = "unused"
    /\ out1 = Empty
    /\ out2 = Empty

Init == AppStart /\ TextStart

\* a new request: nothing of the previous one is kept
Begin(who, q) ==
    /\ pc' = "build"
    /\ caller' = who
    /\ query' = q
    /\ prompt' = Empty
    /\ response' = Empty
    /\ code' = Empty
    /\ calls' = 0
    /\ trace' = << >>
    /\ ran' = NotRun
    /\ raised' = NoException
    /\ errors' = << >>
    /\ chartAtSubmit' = chart

\* the display part of the chart tab
Render(c) == shown' = c

----------------------------------------------------------------------------
(* The application: the chart form of main *)

\* the chart form is submitted with text q
SubmitChart(q) ==
    /\ pc = "idle"
    /\ IF q # Empty
       THEN /\ prompt_history' =
                  IF InSeq(q, [k \in 1..Len(prompt_history) |->
                                 prompt_history[k][2]])
                  THEN prompt_history
                  ELSE Append(prompt_history, <<"Chart", q>>)
            /\ Begin("ui", q)
            /\ UNCHANGED <<chart, qa_feedback, chart_feedback,
                           feedback_history, shown, fbCall, textVars>>
       ELSE /\ Render(chart)
            /\ UNCHANGED <<sessionVars, pc, caller, query, prompt, response,
                           code, calls, trace, ran, raised, errors,
                           chartAtSubmit, fbCall, textVars>>

\* generate_chart_code(q, df) called by another caller than main
CallGenerateChartCode(q) ==
    /\ pc = "idle"
    /\ Begin("direct", q)
    /\ UNCHANGED <<sessionVars, shown, fbCall, textVars>>

\* generate_chart_code: the prompt is built
BuildPrompt ==
    /\ pc = "build"
    /\ prompt' = ChartPrompt(query, Columns)
    /\ trace' = Append(trace, "prompt")
    /\ pc' = "invoke"
    /\ UNCHANGED <<sessionVars, caller, query, response, code, calls, ran,
                   raised, errors, shown, chartAtSubmit, fbCall, textVars>>

\* the except clause of the chart form: the exception is reported
Report(exc) ==
    /\ errors' = Append(errors,
                   <<"An error occurred while generating the chart: ">>
                   \o exc.msg)
    /\ Render(chart)

\* generate_chart_code: llm.invoke(prompt) answers
ServiceAnswers ==
    /\ pc = "invoke"
    /\ calls' = calls + 1
    /\ trace' = Append(trace, "invoke")
    /\ response' \in Responses
    /\ pc' = "extract"
    /\ UNCHANGED <<sessionVars, caller, query, prompt, code, ran, raised,
                   errors, shown, chartAtSubmit, fbCall, textVars>>

\* mutant: a failed llm.invoke is tried again
ServiceFailsAndRetries ==
    /\ pc = "invoke"
    /\ calls' = calls + 1
    /\ trace' = Append(trace, "invoke")
    /\ pc' = "invoke"
    /\ UNCHANGED <<sessionVars, caller, query, prompt, response, code, ran,
                   raised, errors, shown, chartAtSubmit, fbCall, textVars>>

\* generate_chart_code: llm.invoke(prompt) raises
ServiceFails ==
    /\ pc = "invoke"
    /\ calls' = calls + 1
    /\ trace' = Append(trace, "invoke")
    /\ \E d \in ServiceFaultTexts :
          /\ raised' = [kind |-> "Exception", msg |-> d]
          /\ IF caller = "ui"
             THEN Report([kind |-> "Exception", msg |-> d])
             ELSE UNCHANGED <<errors, shown>>
    /\ pc' = "idle"
    /\ UNCHANGED <<sessionVars, caller, query, prompt, response, code, ran,
                   chartAtSubmit, fbCall, textVars>>

\* generate_chart_code: extract_code_from_response(response.content)
ExtractCode ==
    /\ pc = "extract"
    /\ code' = extract_code_from_response(response)
    /\ trace' = Append(trace, "extract")
    /\ pc' = "sanitize"
    /\ UNCHANGED <<sessionVars, caller, query, prompt, response, calls, ran,
                   raised, errors, shown, chartAtSubmit, fbCall, textVars>>

\* generate_chart_code: return clean_generated_code(code)
SanitizeCode ==
    /\ pc = "sanitize"
    /\ code' = clean_generated_code(code)
    /\ trace' = Append(trace, "sanitize")
    /\ pc' = IF caller = "ui" THEN "execute" ELSE "idle"
    /\ UNCHANGED <<sessionVars, caller, query, prompt, response, calls, ran,
                   raised, errors, shown, chartAtSubmit, fbCall, textVars>>

\* mutant: a failed execution clears the chart held
ExecuteCodeClearingChart ==
    /\ pc = "execute"
    /\ trace' = Append(trace, "execute")
    /\ pc' = "idle"
    /\ \E o \in ExecOutcomes(code) :
          LET r == execute_generated_code(code, o)
          IN /\ ran' = r
             /\ raised' = r.exc
             /\ IF r.returned
                THEN /\ chart' = r.value
                     /\ Render(r.value)
                     /\ UNCHANGED errors
                ELSE IF r.exc.kind = "Exception"
                THEN /\ errors' = Append(errors,
                            <<"An error occurred while generating the chart: ">>
                            \o r.exc.msg)
                     /\ chart' = None
                     /\ Render(None)
                ELSE /\ shown' = None
                     /\ UNCHANGED <<chart, errors>>
    /\ UNCHANGED <<qa_feedback, chart_feedback, feedback_history,
                   prompt_history, caller, query, prompt, response, code,
                   calls, chartAtSubmit, fbCall, textVars>>

\* main: st.session_state.chart = execute_generated_code(chart_code, df)
ExecuteCode ==
    /\ pc = "execute"
    /\ trace' = Append(trace, "execute")
    /\ pc' = "idle"
    /\ \E o \in ExecOutcomes(code) :
          LET r == execute_generated_code(code, o)
          IN /\ ran' = r
             /\ raised' = r.exc
             /\ IF r.returned
                THEN /\ chart' = r.value
                     /\ Render(r.value)
                     /\ UNCHANGED errors
                ELSE IF r.exc.kind = "Exception"
                THEN /\ Report(r.exc)
                     /\ UNCHANGED chart
                ELSE \* not caught by except Exception: the run ends here
                     /\ shown' = None
                     /\ UNCHANGED <<chart, errors>>
    /\ UNCHANGED <<qa_feedback, chart_feedback, feedback_history,
                   prompt_history, caller, query, prompt, response, code,
                   calls, chartAtSubmit, fbCall, textVars>>

----------------------------------------------------------------------------
(* The application: feedback *)

\* d[key] = value
Store(d, key, value) ==
    [k \in DOMAIN d \cup {key} |-> IF k = key THEN value ELSE d[k]]

\* mutant: the key is stored whether or not it is already recorded
handle_feedback_overwriting(feedback_type, key, txt, feedback_value) ==
    /\ IF feedback_type = "qa"
       THEN /\ qa_feedback' = Store(qa_feedback, key, feedback_value)
            /\ feedback_history' =
                  Append(feedback_history,
                         <<"Q&A Feedback: ", feedback_value,
                           " for question '", txt, "'">>)
            /\ UNCHANGED chart_feedback
       ELSE /\ chart_feedback' = Store(chart_feedback, key, feedback_value)
            /\ feedback_history' =
                  Append(feedback_history,
                         <<"Chart Feedback: ", feedback_value,
                           " for query '", txt, "'">>)
            /\ UNCHANGED qa_feedback

handle_feedback(feedback_type, key, txt, feedback_value) ==
    /\ IF feedback_type = "qa"
       THEN /\ IF key \notin DOMAIN qa_feedback
               THEN /\ qa_feedback' = Store(qa_feedback, key, feedback_value)
                    /\ feedback_history' =
                          Append(feedback_history,
                                 <<"Q&A Feedback: ", feedback_value,
                                   " for question '", txt, "'">>)
               ELSE UNCHANGED <<qa_feedback, feedback_history>>
            /\ UNCHANGED chart_feedback
       ELSE /\ IF key \notin DOMAIN chart_feedback
               THEN /\ chart_feedback' = Store(chart_feedback, key, feedback_value)
                    /\ feedback_history' =
                          Append(feedback_history,
                                 <<"Chart Feedback: ", feedback_value,
                                   " for query '", txt, "'">>)
               ELSE UNCHANGED <<chart_feedback, feedback_history>>
            /\ UNCHANGED qa_feedback

\* a feedback callback runs, then main runs again and renders
Feedback(feedback_type, key, txt, feedback_value) ==
    /\ pc = "idle"
    /\ handle_feedback(feedback_type, key, txt, feedback_value)
    /\ fbCall' = [ftype |-> feedback_type, key |-> key, text |-> txt,
                  value |-> feedback_value]
    /\ Render(chart)
    /\ UNCHANGED <<chart, prompt_history, pc, caller, query, prompt, response,
                   code, calls, trace, ran, raised, errors, chartAtSubmit,
                   textVars>>

Next ==
    \/ \E q \in Queries \cup {Empty} : SubmitChart(q)
    \/ \E q \in Queries \cup {Empty} : CallGenerateChartCode(q)
    \/ BuildPrompt
    \/ ServiceAnswers
    \/ ServiceFails
    \/ ExtractCode
    \/ SanitizeCode
    \/ ExecuteCode

\* chart requests, served one at a time
Spec == Init /\ [][Next]_vars

NextFeedback ==
    \E t \in FeedbackTypes, k \in FeedbackKeys, x \in FeedbackTexts,
       v \in FeedbackValues : Feedback(t, k, x, v)

\* any sequence of handle_feedback calls
SpecFeedback == Init /\ [][NextFeedback]_vars

----------------------------------------------------------------------------
(* Specification of the sanitizer applied to enumerated fragments *)

InitClean ==
    /\ AppStart
    /\ text \in CleanInputs
    /\ stage = "input"
    /\ out1 = <<>>
    /\ out2 = <<>>

\* clean_generated_code(text)
Sanitize ==
    /\ stage = "input"
    /\ out1' = clean_generated_code(text)
    /\ stage' = "once"
    /\ UNCHANGED <<text, out2, appVars>>

\* clean_generated_code(clean_generated_code(text))
SanitizeAgain ==
    /\ stage = "once"
    /\ out2' = clean_generated_code(out1)
    /\ stage' = "twice"
    /\ UNCHANGED <<text, out1, appVars>>

NextClean == Sanitize \/ SanitizeAgain

SpecClean == InitClean /\ [][NextClean]_vars

----------------------------------------------------------------------------
(* Specification of the extractor applied to enumerated responses *)

\* a tagged block and an untagged block, each on lines of its own
TaggedBlock == TaggedFence \o <<NL, "b", NL>> \o Fence
UntaggedBlock == Fence \o <<NL, "c", NL>> \o Fence

ExtractPieces ==
    { TaggedFence, Fence, <<BQ>>, <<"a">>, <<NL>>, TaggedBlock, UntaggedBlock }

ExtractInputs == Concats(ExtractPieces, MaxExtractPieces)

InitExtract ==
    /\ AppStart
    /\ text \in ExtractInputs
    /\ stage = "input"
    /\ out1 = <<>>
    /\ out2 = <<>>

\* extract_code_from_response(text)
Extract ==
    /\ stage = "input"
    /\ out1' = extract_code_from_response(text)
    /\ stage' = "extracted"
    /\ UNCHANGED <<text, out2, appVars>>

NextExtract == Extract

SpecExtract == InitExtract /\ [][NextExtract]_vars

----------------------------------------------------------------------------
(* Properties of the sanitizer *)

\* the line begins, once trimmed, with an import-style keyword
ImportStyle(line) ==
    StartsWith(Strip(line), ImportKw) \/ StartsWith(Strip(line), FromKw)

NotImportStyle(line) == ~ImportStyle(line)

WithoutShowCalls(lines) ==
    [k \in 1..Len(lines) |-> Replace(lines[k], ShowCall, <<>>)]

\* C1: sanitizing twice gives what sanitizing once gives
C1_SanitizeIdempotent ==
    stage = "twice" => out2 = out1

\* C2: the sanitized text holds no show-call and no import-style line, and
\* every other line of the input (read after its show-calls are taken out,
\* the reading that favours the claim) is kept, in order
C2_NoShowCallNoImportRestKept ==
    stage \in {"once", "twice"} =>
        /\ ~Contains(out1, ShowCall)
        /\ \A k \in 1..Len(Split(out1, <<NL>>)) :
              ~ImportStyle(Split(out1, <<NL>>)[k])
        /\ out1 = Join(SelectSeq(WithoutShowCalls(Split(text, <<NL>>)),
                                 NotImportStyle), <<NL>>)

\* C3 as stated: the scenario fragment sanitizes to a newline, the figure
\* line and a newline
C3_ScenarioKeepsBlankLine ==
    (stage \in {"once", "twice"} /\ text = ScenarioFragment) =>
        out1 = <<NL>> \o FigLine \o <<NL>>

\* C3 as amended: the scenario fragment sanitizes to the figure line followed
\* by one newline; the import line is dropped whole and leaves no blank line
C3_ScenarioDropsImportLine ==
    (stage \in {"once", "twice"} /\ text = ScenarioFragment) =>
        out1 = FigLine \o <<NL>>

C3_Witness ==
    stage = "once" /\ text = ScenarioFragment /\ out1 = FigLine \o <<NL>>

----------------------------------------------------------------------------
(* Properties of the extractor *)

Min(S) == CHOOSE i \in S : \A j \in S : i <= j

\* position of the first fence marker of the text, tagged or not
FirstOpen(s) == Find(s, Fence, 1)

FirstIsTagged(s) == StartsWith(Tail_(s, FirstOpen(s)), TaggedFence)

\* position following the opening marker of the first block
FirstBody(s) ==
    FirstOpen(s) + (IF FirstIsTagged(s) THEN Len(TaggedFence) ELSE Len(Fence))

\* position of the marker closing the first block, 0 when it is not closed
FirstClose(s) == Find(s, Fence, FirstBody(s))

\* the text holds a first block, closed, and a fence marker after it
SeveralBlocks(s) ==
    /\ FirstOpen(s) # 0
    /\ FirstClose(s) # 0
    /\ Find(s, Fence, FirstClose(s) + Len(Fence)) # 0

\* exactly two blocks, each opened and closed by a marker of its own: four
\* markers, no run of four backquotes, and no tag on a closing marker
TwoCompleteBlocks(s) ==
    LET parts == Split(s, Fence)
        tag == SubSeq(TaggedFence, Len(Fence) + 1, Len(TaggedFence))
    IN /\ ~Contains(s, <<BQ, BQ, BQ, BQ>>)
       /\ Len(parts) = 5
       /\ ~StartsWith(parts[3], tag)
       /\ ~StartsWith(parts[5], tag)

FirstBlockContent(s) == Strip(SubSeq(s, FirstBody(s), FirstClose(s) - 1))

\* the text between the first tagged marker and what the two splits take as
\* its end: the first fence lying wholly before the next tagged marker, else
\* that marker, else the end of the text
FirstTaggedContent(s) ==
    LET body == Find(s, TaggedFence, 1) + Len(TaggedFence)
        nextTag == Find(s, TaggedFence, body)
        limit == IF nextTag = 0 THEN Len(s) + 1 ELSE nextTag
        closes == {j \in body..(limit - Len(Fence)) :
                      SubSeq(s, j, j + Len(Fence) - 1) = Fence}
        close == IF closes = {} THEN limit ELSE Min(closes)
    IN Strip(SubSeq(s, body, close - 1))

\* the text between the first two fence markers
FirstUntaggedContent(s) ==
    LET body == Find(s, Fence, 1) + Len(Fence)
        close == Find(s, Fence, body)
    IN Strip(SubSeq(s, body, IF close = 0 THEN Len(s) ELSE close - 1))

\* C4 as stated: of several fenced blocks, in any order, the content of the
\* first block of the text is returned
C4_FirstBlockOfText ==
    (stage = "extracted" /\ TwoCompleteBlocks(text)) =>
        out1 = FirstBlockContent(text)

\* C4 as amended: of several fenced blocks the content of one block is
\* returned: the first tagged block when the text holds a tagged marker,
\* also when an untagged block comes before it, else the first block
C4_FirstTaggedElseFirstUntagged ==
    (stage = "extracted" /\ SeveralBlocks(text)) =>
        out1 = IF Contains(text, TaggedFence)
               THEN FirstTaggedContent(text)
               ELSE FirstUntaggedContent(text)

C4_Witness ==
    /\ stage = "extracted"
    /\ text = UntaggedBlock \o <<NL>> \o TaggedBlock
    /\ SeveralBlocks(text)
    /\ out1 = <<"b">>

\* C5: with a tagged block in the text, the result is the text between the
\* first tagged marker and the next fence marker after it, trimmed
C5_BetweenTaggedAndNextFence ==
    LET body == Find(text, TaggedFence, 1) + Len(TaggedFence)
        close == Find(text, Fence, body)
    IN (stage = "extracted" /\ Contains(text, TaggedFence) /\ close # 0) =>
           out1 = Strip(SubSeq(text, body, close - 1))

----------------------------------------------------------------------------
(* Properties of the chart request *)

Steps == <<"prompt", "invoke", "extract", "sanitize", "execute">>

IsPrefix(s, t) == Len(s) <= Len(t) /\ SubSeq(t, 1, Len(s)) = s

\* the request ended with llm.invoke raising
ServiceFailed ==
    caller # "none" /\ pc = "idle" /\ raised.msg \in ServiceFaultTexts

\* execute_generated_code did not succeed: the fragment raised a fault, or
\* finished without binding fig
ExecutionFailed == ran.outcome.kind \in {"fault", "unbound"}

\* C6: when the fragment raises a fault or leaves fig unbound,
\* execute_generated_code raises one error and returns no artifact, and the
\* message of the error holds the fault text (the missing-fig text) and the
\* whole fragment as it was passed
C6_FailureCarriesFaultAndFragment ==
    ExecutionFailed =>
        /\ ~ran.returned
        /\ ran.value = None
        /\ chart = chartAtSubmit
        /\ ran.exc.kind = "Exception"
        /\ raised = ran.exc
        /\ IsInfix(IF ran.outcome.kind = "fault" THEN ran.outcome.desc
                   ELSE NoFigureText, ran.exc.msg)
        /\ IsInfix(code, ran.exc.msg)

C6_Witness ==
    /\ ran.outcome.kind = "fault"
    /\ code # Strip(code)
    /\ IsInfix(code, raised.msg)
    /\ pc = "idle"

\* C7: a chart generation with the empty query is rejected with an error
\* before the service is called, also when generate_chart_code is called
\* directly
C7_EmptyQueryRejectedBeforeService ==
    (caller # "none" /\ query = Empty) =>
        /\ calls = 0
        /\ ~InSeq("invoke", trace)
        /\ (pc = "idle" => raised.kind # "none")

\* C8: the steps of a chart request run in the order prompt, service call,
\* extract, sanitize, execute, the service being called once; when the call
\* fails, one error is reported, the service is not called again and none of
\* extract, sanitize, execute is run
C8_StepsInOrderServiceCalledOnce ==
    caller = "ui" =>
        /\ IsPrefix(trace, Steps)
        /\ calls = (IF InSeq("invoke", trace) THEN 1 ELSE 0)
        /\ (pc = "idle" /\ ran.outcome.kind # "none" => trace = Steps)
        /\ ServiceFailed =>
              /\ trace = <<"prompt", "invoke">>
              /\ calls = 1
              /\ Len(errors) = 1
              /\ IsInfix(raised.msg, errors[1])
              /\ code = Empty
              /\ ran = NotRun

C8_Witness ==
    caller = "ui" /\ ServiceFailed /\ Len(errors) = 1 /\ calls = 1

\* C9: when a chart request fails, by a service error or an execution error,
\* st.session_state.chart is what it was when the request was submitted,
\* and that chart is the one rendered after the error is reported
C9_FailureLeavesChart ==
    (caller = "ui" /\ pc = "idle" /\ raised.kind = "Exception") =>
        /\ chart = chartAtSubmit
        /\ shown = chart
        /\ Len(errors) = 1

C9_Witness ==
    /\ caller = "ui"
    /\ pc = "idle"
    /\ ExecutionFailed
    /\ raised.kind = "Exception"
    /\ chart = "figA"
    /\ shown = "figA"
    /\ Len(errors) = 1

----------------------------------------------------------------------------
(* Properties of the feedback *)

Recorded == Cardinality(DOMAIN qa_feedback) + Cardinality(DOMAIN chart_feedback)

\* the values recorded in d are in e, unchanged
Kept(d, e) == \A k \in DOMAIN d : k \in DOMAIN e /\ e[k] = d[k]

\* C10: over any sequence of handle_feedback calls, a value recorded for a
\* key is never overwritten, feedback_history gains one entry for each newly
\* recorded key and none otherwise, and its length is the number of keys of
\* qa_feedback plus the number of keys of chart_feedback
C10_FeedbackRecordedOnce ==
    [][ /\ Kept(qa_feedback, qa_feedback')
        /\ Kept(chart_feedback, chart_feedback')
        /\ IsPrefix(feedback_history, feedback_history')
        /\ Len(feedback_history') - Len(feedback_history) =
              Cardinality(DOMAIN qa_feedback' \ DOMAIN qa_feedback)
              + Cardinality(DOMAIN chart_feedback' \ DOMAIN chart_feedback)
        /\ Len(feedback_history) = Recorded
        /\ Len(feedback_history') = Recorded' ]_vars

\* a key already recorded was passed again with another value, and the first
\* value stands
C10_Witness ==
    /\ fbCall.ftype = "qa"
    /\ fbCall.key \in DOMAIN qa_feedback
    /\ qa_feedback[fbCall.key] # fbCall.value
    /\ DOMAIN chart_feedback # {}
    /\ Len(feedback_history) = Recorded

====
